---- MODULE Spec2Model ----
(***************************************************************************)
(* LoggingCallbackManager (litellm_core_utils/logging_callback_manager.py) *)
(* as a state machine over the process-wide callback lists of litellm.     *)
(***************************************************************************)
EXTENDS Integers, Sequences, FiniteSets, Bags, TLC

(***************************************************************************)
(* Program constant.                                                       *)
(***************************************************************************)
MAX_CALLBACKS == 30

(***************************************************************************)
(* Bounds of the model.                                                    *)
(***************************************************************************)
\* callbacks registered over all lists together, specification Spec
MaxTotal == 2
\* SpecCap: callbacks other than the numbered names are registered once the
\* list is within CapSlack of MAX_CALLBACKS
CapSlack == 2
\* callbacks registered over all lists together, specification SpecNames
MaxNames == 3
\* callbacks registered on the list, specification SpecRemove
MaxRemove == 4
\* SpecRace: the racing calls start once the list is within RaceSlack of
\* MAX_CALLBACKS
RaceSlack == 2
\* callbacks registered over all lists together, specification SpecTypes
MaxTypes == 3
\* callbacks registered over all lists together, specification SpecKey
MaxKey == 2
\* callbacks registered over all lists together, specification SpecStrings
MaxStrings == 3

(***************************************************************************)
(* Values.  Every Python object that can be passed as a callback, or as    *)
(* the obj of a removal, is a record [kind, id]: a str, a CustomLogger     *)
(* instance, a callable, an object that is none of the three, or an owner  *)
(* object whose bound methods are registered.  Two records are equal       *)
(* exactly when Python's == holds between the objects.                     *)
(***************************************************************************)
Str(s) == [kind |-> "str", id |-> s]
Logger(o) == [kind |-> "logger", id |-> o]
Fn(o) == [kind |-> "fn", id |-> o]
Other(o) == [kind |-> "other", id |-> o]
Owner(o) == [kind |-> "owner", id |-> o]

\* isinstance(callback, str)
IsStr(x) == x.kind = "str"
\* isinstance(callback, CustomLogger)
IsCustomLogger(x) == x.kind = "logger"
\* callable(callback)
IsCallable(x) == x.kind = "fn"

(***************************************************************************)
(* The CustomLogger instances.  vars(custom_logger) is the instance        *)
(* dictionary in the order the attributes were set; an attribute value is  *)
(* a str, a bool, an int or some other object.                             *)
(***************************************************************************)
StrVal(s) == [t |-> "str", s |-> s, i |-> 0, b |-> FALSE]
IntVal(i) == [t |-> "int", s |-> "", i |-> i, b |-> FALSE]
BoolVal(b) == [t |-> "bool", s |-> "", i |-> 0, b |-> b]
ObjVal(s) == [t |-> "obj", s |-> s, i |-> 0, b |-> FALSE]
Attr(n, v) == [name |-> n, value |-> v]

\* type(custom_logger).__name__
TypeName(o) ==
  CASE o \in {"L1", "L2", "L3", "L4"} -> "DataDogLogger"
    [] o = "S1" -> "DataDogLLMObsLogger"
    [] o = "Q1" -> "OtherLogger"
    [] OTHER -> "MyLogger"

\* the classes an instance of the class is an instance of: the class and
\* its bases (DataDogLLMObsLogger derives from DataDogLogger, every logger
\* class from CustomLogger)
SuperTypes(type_name) ==
  CASE type_name = "DataDogLLMObsLogger" ->
         {"DataDogLLMObsLogger", "DataDogLogger", "CustomLogger"}
    [] OTHER -> {type_name, "CustomLogger"}

\* vars(custom_logger).items()
InstanceVars(o) ==
  CASE o = "L1" -> << Attr("a", IntVal(1)), Attr("_secret", StrVal("s1")),
                      Attr("b", StrVal("x")), Attr("client", ObjVal("c1")) >>
    [] o = "L2" -> << Attr("a", IntVal(1)), Attr("_secret", StrVal("s2")),
                      Attr("b", StrVal("x")) >>
    [] o = "L3" -> << Attr("b", StrVal("x")), Attr("a", IntVal(1)) >>
    [] o = "L4" -> << Attr("a", IntVal(2)), Attr("b", StrVal("x")) >>
    [] o = "S1" -> << Attr("a", IntVal(1)), Attr("b", StrVal("x")) >>
    [] o = "K1" -> << Attr("a", IntVal(1)), Attr("_p", StrVal("u")) >>
    [] o = "K2" -> << Attr("a", IntVal(1)), Attr("_p", StrVal("v")) >>
    [] o = "K3" -> << Attr("a", IntVal(1)), Attr("client", ObjVal("c3")) >>
    [] o = "K4" -> << Attr("a", IntVal(1)), Attr("tags", ObjVal("list")) >>
    [] o = "P1" -> << Attr("a", IntVal(1)) >>
    [] o = "P2" -> << Attr("n", IntVal(1)) >>
    [] o = "P3" -> << Attr("n", StrVal("1")) >>
    [] o = "P4" -> << Attr("n", StrVal("1-m=2")) >>
    [] o = "P5" -> << Attr("n", StrVal("1")), Attr("m", StrVal("2")) >>
    [] o = "P6" -> << Attr("n", BoolVal(TRUE)) >>
    [] o = "P7" -> << Attr("n", StrVal("True")) >>
    [] o = "P8" -> << Attr("n", IntVal(2)) >>
    [] o = "P9" -> << Attr("m", IntVal(1)) >>
    [] o = "Q1" -> << Attr("n", IntVal(1)) >>
    [] OTHER -> << >>

(***************************************************************************)
(* The callables.  A bound method has __self__ and compares equal to every *)
(* other access of the same method on the same object; a plain function    *)
(* has __name__ and no __self__; a functools.partial object has neither.   *)
(***************************************************************************)
BoundMethods == {"A.m1", "A.m2", "A.m3", "B.m1"}

\* hasattr(c, "__self__")
HasSelf(x) == x.kind = "fn" /\ x.id \in BoundMethods

\* c.__self__
SelfOf(x) ==
  CASE x.id \in {"A.m1", "A.m2", "A.m3"} -> Owner("A")
    [] OTHER -> Owner("B")

\* hasattr(callback, "__name__")
HasName(x) == x.kind = "fn" /\ x.id # "partial"

\* callback.__name__
NameOf(x) ==
  CASE x.id = "A.m1" -> "m1"
    [] x.id = "A.m2" -> "m2"
    [] x.id = "A.m3" -> "m3"
    [] x.id = "B.m1" -> "m1"
    [] OTHER -> x.id

(***************************************************************************)
(* _get_custom_logger_key                                                  *)
(***************************************************************************)
\* a test that takes no attribute for private
StartsWithUnderscore_Never(n) == FALSE

\* attr_name.startswith("_")
StartsWithUnderscore(n) == Len(n) >= 1 /\ SubSeq(n, 1, 1) = "_"

\* isinstance(attr_value, (str, bool, int))
IsFundamental(v) == v.t \in {"str", "bool", "int"}

\* the {attr_value} of an f-string: str(attr_value)
Format(v) ==
  CASE v.t = "str" -> v.s
    [] v.t = "int" -> ToString(v.i)
    [] v.t = "bool" -> (IF v.b THEN "True" ELSE "False")
    [] OTHER -> "<object>"

\* the key_parts appended by the loop over vars(custom_logger).items()
RECURSIVE KeyParts(_)
KeyParts(items) ==
  IF items = << >> THEN << >>
  ELSE LET it == Head(items)
           rest == KeyParts(Tail(items))
       IN IF ~StartsWithUnderscore(it.name) /\ IsFundamental(it.value)
            THEN << it.name \o "=" \o Format(it.value) >> \o rest
            ELSE rest

\* "-".join(parts)
RECURSIVE Join(_)
Join(parts) ==
  IF Len(parts) = 0 THEN ""
  ELSE IF Len(parts) = 1 THEN parts[1]
  ELSE parts[1] \o "-" \o Join(Tail(parts))

_get_custom_logger_key(x) ==
  Join(<< TypeName(x.id) >> \o KeyParts(InstanceVars(x.id)))

(***************************************************************************)
(* The add path.  Each function returns the list as it leaves it and how   *)
(* the call ended: "appended", "duplicate" (debug message only), "full"    *)
(* (warning only), "ignored" (no branch taken) or "raised" (an exception   *)
(* left the call).                                                         *)
(***************************************************************************)
Result(l, o) == [list |-> l, outcome |-> o]

\* x in parent_list
InList(x, l) == \E i \in 1..Len(l) : l[i] = x

\* a limit test that lets a full list take one more
_check_callback_list_size_OffByOne(parent_list) ==
  ~(Len(parent_list) > MAX_CALLBACKS)

\* True if safe to add, False if the list is at the limit
_check_callback_list_size(parent_list) == ~(Len(parent_list) >= MAX_CALLBACKS)

\* an add of a name that does not look for the name in the list
_add_string_callback_to_list_NoCheck(callback, parent_list) ==
  Result(Append(parent_list, callback), "appended")

_add_string_callback_to_list(callback, parent_list) ==
  IF ~InList(callback, parent_list)
    THEN Result(Append(parent_list, callback), "appended")
    ELSE Result(parent_list, "duplicate")

\* an add of a callable that puts it at the front of the list
_add_callback_function_to_list_AtFront(callback, parent_list) ==
  IF ~InList(callback, parent_list)
    THEN Result(<< callback >> \o parent_list, "appended")
    ELSE IF HasName(callback)
           THEN Result(parent_list, "duplicate")
           ELSE Result(parent_list, "raised")

\* the else branch formats callback.__name__ into the debug message
_add_callback_function_to_list(callback, parent_list) ==
  IF ~InList(callback, parent_list)
    THEN Result(Append(parent_list, callback), "appended")
    ELSE IF HasName(callback)
           THEN Result(parent_list, "duplicate")
           ELSE Result(parent_list, "raised")

\* an add of a logger instance that does not compare keys
_add_custom_logger_to_list_NoScan(custom_logger, parent_list) ==
  Result(Append(parent_list, custom_logger), "appended")

_add_custom_logger_to_list(custom_logger, parent_list) ==
  LET custom_logger_key == _get_custom_logger_key(custom_logger)
  IN IF \E i \in 1..Len(parent_list) :
          /\ IsCustomLogger(parent_list[i])
          /\ _get_custom_logger_key(parent_list[i]) = custom_logger_key
       THEN Result(parent_list, "duplicate")
       ELSE Result(Append(parent_list, custom_logger), "appended")

_safe_add_callback_to_list(callback, parent_list) ==
  IF ~_check_callback_list_size(parent_list)
    THEN Result(parent_list, "full")
  ELSE IF IsStr(callback)
    THEN _add_string_callback_to_list(callback, parent_list)
  ELSE IF IsCustomLogger(callback)
    THEN _add_custom_logger_to_list(callback, parent_list)
  ELSE IF IsCallable(callback)
    THEN _add_callback_function_to_list(callback, parent_list)
  ELSE Result(parent_list, "ignored")

(***************************************************************************)
(* remove_callback_from_list_by_object                                     *)
(***************************************************************************)
\* list.remove(c): drops the first element equal to c
RECURSIVE ListRemove(_, _)
ListRemove(l, c) ==
  IF l = << >> THEN << >>
  ELSE IF Head(l) = c THEN Tail(l)
  ELSE << Head(l) >> \o ListRemove(Tail(l), c)

\* for c in remove_list: callback_list.remove(c)
RECURSIVE RemoveEach(_, _)
RemoveEach(l, remove_list) ==
  IF remove_list = << >> THEN l
  ELSE RemoveEach(ListRemove(l, Head(remove_list)), Tail(remove_list))

MatchesObject(c, obj, require_self) ==
  IF require_self THEN HasSelf(c) /\ SelfOf(c) = obj
  ELSE c = obj

\* a removal that stops after the first match
remove_callback_from_list_by_object_FirstOnly(callback_list, obj, require_self) ==
  LET remove_list ==
        SelectSeq(callback_list, LAMBDA c : MatchesObject(c, obj, require_self))
  IN IF remove_list = << >> THEN callback_list
     ELSE ListRemove(callback_list, Head(remove_list))

remove_callback_from_list_by_object(callback_list, obj, require_self) ==
  LET remove_list ==
        SelectSeq(callback_list, LAMBDA c : MatchesObject(c, obj, require_self))
  IN RemoveEach(callback_list, remove_list)

(***************************************************************************)
(* State: the seven callback lists of the litellm module, a record of the  *)
(* last call made on the manager, and for each thread the call of          *)
(* _safe_add_callback_to_list it is in: where it is, its callback, its     *)
(* list and the index of its loop over the list.  When atomic holds every  *)
(* call runs to its end before another starts, as under one exclusive      *)
(* lock held by the callers.                                               *)
(***************************************************************************)
VARIABLES lists, last, calls, atomic

vars == << lists, last, calls, atomic >>

Threads == {"t1", "t2"}

Idle == [pc |-> "idle", callback |-> Other("none"), list |-> "", i |-> 0]

\* litellm.callbacks, .input_callback, .success_callback, .failure_callback,
\* ._async_success_callback, ._async_failure_callback: the lists reset by
\* _reset_all_callbacks
ResetLists ==
  {"callbacks", "input_callback", "success_callback", "failure_callback",
   "_async_success_callback", "_async_failure_callback"}

\* litellm.service_callback has an add method and is not reset
AllLists == ResetLists \cup {"service_callback"}

Total == LET RECURSIVE Sum(_)
             Sum(S) == IF S = {} THEN 0
                       ELSE LET c == CHOOSE c \in S : TRUE
                            IN Len(lists[c]) + Sum(S \ {c})
         IN Sum(AllLists)

NoCall == [op |-> "none", outcome |-> "", n |-> 0]

Init ==
  /\ lists = [c \in AllLists |-> << >>]
  /\ last = NoCall
  /\ calls = [t \in Threads |-> Idle]
  /\ atomic = TRUE

\* an add that also looks for the callback in the other lists
Add_AcrossLists(callback, c) ==
  LET seen == \E d \in AllLists \ {c} : InList(callback, lists[d])
      r == IF seen THEN Result(lists[c], "duplicate")
           ELSE _safe_add_callback_to_list(callback, lists[c])
  IN /\ lists' = [lists EXCEPT ![c] = r.list]
     /\ last' = [op |-> "add", outcome |-> r.outcome,
                 n |-> Len(r.list) - Len(lists[c])]
     /\ UNCHANGED << calls, atomic >>

\* add_litellm_callback, add_litellm_success_callback, ...: each passes its
\* own list to _safe_add_callback_to_list
Add(callback, c) ==
  LET r == _safe_add_callback_to_list(callback, lists[c])
  IN /\ lists' = [lists EXCEPT ![c] = r.list]
     /\ last' = [op |-> "add", outcome |-> r.outcome,
                 n |-> Len(r.list) - Len(lists[c])]
     /\ UNCHANGED << calls, atomic >>

\* remove_callback_from_list_by_object on one of the lists
Remove(c, obj, require_self) ==
  LET l == remove_callback_from_list_by_object(lists[c], obj, require_self)
  IN /\ lists' = [lists EXCEPT ![c] = l]
     /\ last' = [op |-> "remove",
                 outcome |-> IF require_self THEN "by_self" ELSE "by_equality",
                 n |-> Len(lists[c]) - Len(l)]
     /\ UNCHANGED << calls, atomic >>

\* a reset that forgets the async lists
Reset_SkipsAsync ==
  /\ lists' = [c \in AllLists |->
                IF c \in ResetLists \ {"_async_success_callback",
                                       "_async_failure_callback"}
                  THEN << >> ELSE lists[c]]
  /\ last' = [op |-> "reset", outcome |-> "",
              n |-> IF \E c \in ResetLists : lists[c] # << >> THEN 1 ELSE 0]
  /\ UNCHANGED << calls, atomic >>

\* _reset_all_callbacks
Reset ==
  /\ lists' = [c \in AllLists |-> IF c \in ResetLists THEN << >> ELSE lists[c]]
  /\ last' = [op |-> "reset", outcome |-> "",
              n |-> IF \E c \in ResetLists : lists[c] # << >> THEN 1 ELSE 0]
  /\ UNCHANGED << calls, atomic >>

(***************************************************************************)
(* Specification Spec: every kind of callback, every list.                 *)
(***************************************************************************)
Callbacks ==
  {Str("datadog"), Logger("L1"), Logger("L2"), Logger("L3"),
   Fn("partial"), Fn("A.m1"), Other("none")}

Objects == {Owner("A"), Str("datadog"), Logger("L1")}

Next ==
  \/ \E callback \in Callbacks, c \in AllLists :
       Total < MaxTotal /\ Add(callback, c)
  \/ \E c \in AllLists, obj \in Objects, require_self \in BOOLEAN :
       lists[c] # << >> /\ Remove(c, obj, require_self)
  \/ Reset

Spec == Init /\ [][Next]_vars

(***************************************************************************)
(* Specification SpecCap: one list at a time is filled to MAX_CALLBACKS    *)
(* and beyond with the names cb1, cb2, ... registered in this order, and   *)
(* callbacks of every kind are registered on the nearly full and on the    *)
(* full list.                                                              *)
(***************************************************************************)
Filler(k) == Str("cb" \o ToString(k))

Fillers == {Filler(k) : k \in 1..(MAX_CALLBACKS + 1)}

CapExtras ==
  {Str("datadog"), Logger("L1"), Logger("L2"), Fn("partial"), Fn("A.m1"),
   Other("none")}

CapCallbacks == Fillers \cup CapExtras

NumFillers(l) == Cardinality({i \in 1..Len(l) : l[i] \in Fillers})

\* what the caller registers next on list c
CapOffer(c) ==
  {Filler(k) : k \in {j \in {NumFillers(lists[c]), NumFillers(lists[c]) + 1} :
                        1 <= j /\ j <= MAX_CALLBACKS + 1}}
  \cup (IF Len(lists[c]) >= MAX_CALLBACKS - CapSlack THEN CapExtras ELSE {})

NextCap ==
  \/ \E c \in AllLists :
       /\ \A d \in AllLists \ {c} : lists[d] = << >>
       /\ \E callback \in CapOffer(c) : Add(callback, c)
  \/ \E c \in AllLists, obj \in Objects, require_self \in BOOLEAN :
       lists[c] # << >> /\ Remove(c, obj, require_self)
  \/ Reset

SpecCap == Init /\ [][NextCap]_vars

(***************************************************************************)
(* Specification SpecNames: names only, on every list.                     *)
(***************************************************************************)
Names == {Str("datadog"), Str("sentry"), Str("langfuse")}

NextNames ==
  \/ \E callback \in Names, c \in AllLists :
       Total < MaxNames /\ Add(callback, c)
  \/ \E c \in AllLists, obj \in {Str("datadog"), Owner("A")},
        require_self \in BOOLEAN :
       lists[c] # << >> /\ Remove(c, obj, require_self)
  \/ Reset

SpecNames == Init /\ [][NextNames]_vars

(***************************************************************************)
(* Specification SpecRemove: bound methods of two owners, a plain          *)
(* function, a name and a logger instance on one list, and removals by     *)
(* owner and by equality.                                                  *)
(***************************************************************************)
RemoveCallbacks ==
  {Fn("A.m1"), Fn("A.m2"), Fn("A.m3"), Fn("B.m1"), Fn("f"),
   Str("datadog"), Logger("L1")}

RemoveObjects ==
  {Owner("A"), Owner("B"), Fn("A.m1"), Str("datadog"), Logger("L1")}

RemoveLists == {"callbacks", "success_callback"}

NextRemove ==
  \/ \E callback \in RemoveCallbacks, c \in RemoveLists :
       /\ Total < MaxRemove
       /\ \A d \in AllLists \ {c} : lists[d] = << >>
       /\ Add(callback, c)
  \/ \E c \in RemoveLists, obj \in RemoveObjects, require_self \in BOOLEAN :
       Remove(c, obj, require_self)
  \/ Reset

SpecRemove == Init /\ [][NextRemove]_vars

(***************************************************************************)
(* Specification SpecRace: two threads call add on one list with no lock   *)
(* in the manager.  A call is the steps of _safe_add_callback_to_list:     *)
(* the size check, the look through the list (one step for a name or a     *)
(* callable, one step per element for a logger instance), the append.      *)
(* With atomic the same calls run one at a time, each as the single step   *)
(* Add.  The list is first filled with numbered names, one call at a       *)
(* time.                                                                   *)
(***************************************************************************)
RaceList == "success_callback"

RaceCallbacks == {Str("datadog"), Logger("L1"), Logger("L2")}

AllIdle == \A t \in Threads : calls[t].pc = "idle"

InitRace ==
  /\ lists = [c \in AllLists |-> << >>]
  /\ last = NoCall
  /\ calls = [t \in Threads |-> Idle]
  /\ atomic \in BOOLEAN

\* the call ends: return, or an exception leaves it
Return(t, outcome, n) ==
  /\ calls' = [calls EXCEPT ![t] = Idle]
  /\ last' = [op |-> "add", outcome |-> outcome, n |-> n]

\* a thread enters _safe_add_callback_to_list
Call(t, callback, c) ==
  /\ calls[t].pc = "idle"
  /\ calls' = [calls EXCEPT ![t] =
                 [pc |-> "check", callback |-> callback, list |-> c, i |-> 0]]
  /\ UNCHANGED << lists, last, atomic >>

\* if not self._check_callback_list_size(parent_list): return
CheckSizeStep(t) ==
  LET call == calls[t]
  IN /\ call.pc = "check"
     /\ IF ~_check_callback_list_size(lists[call.list])
          THEN Return(t, "full", 0)
        ELSE IF \/ IsStr(call.callback)
                \/ IsCustomLogger(call.callback)
                \/ IsCallable(call.callback)
          THEN /\ calls' = [calls EXCEPT ![t].pc = "scan", ![t].i = 1]
               /\ UNCHANGED last
        ELSE Return(t, "ignored", 0)
     /\ UNCHANGED << lists, atomic >>

\* `callback not in parent_list`, or one turn of
\* `for existing_logger in parent_list`
ScanStep(t) ==
  LET call == calls[t]
      parent_list == lists[call.list]
  IN /\ call.pc = "scan"
     /\ IF IsCustomLogger(call.callback)
          THEN IF call.i > Len(parent_list)
                 THEN /\ calls' = [calls EXCEPT ![t].pc = "append"]
                      /\ UNCHANGED last
               ELSE IF /\ IsCustomLogger(parent_list[call.i])
                       /\ _get_custom_logger_key(parent_list[call.i])
                            = _get_custom_logger_key(call.callback)
                 THEN Return(t, "duplicate", 0)
               ELSE /\ calls' = [calls EXCEPT ![t].i = call.i + 1]
                    /\ UNCHANGED last
        ELSE IF ~InList(call.callback, parent_list)
          THEN /\ calls' = [calls EXCEPT ![t].pc = "append"]
               /\ UNCHANGED last
        ELSE IF IsStr(call.callback) \/ HasName(call.callback)
          THEN Return(t, "duplicate", 0)
        ELSE Return(t, "raised", 0)
     /\ UNCHANGED << lists, atomic >>

\* parent_list.append(callback)
AppendStep(t) ==
  LET call == calls[t]
  IN /\ call.pc = "append"
     /\ lists' = [lists EXCEPT ![call.list] = Append(@, call.callback)]
     /\ Return(t, "appended", 1)
     /\ UNCHANGED atomic

NextRace ==
  \/ /\ AllIdle
     /\ Len(lists[RaceList]) < MAX_CALLBACKS
     /\ Add(Filler(Len(lists[RaceList]) + 1), RaceList)
  \/ /\ atomic
     /\ Len(lists[RaceList]) >= MAX_CALLBACKS - RaceSlack
     /\ \E callback \in RaceCallbacks : Add(callback, RaceList)
  \/ /\ ~atomic
     /\ Len(lists[RaceList]) >= MAX_CALLBACKS - RaceSlack
     /\ \E t \in Threads, callback \in RaceCallbacks :
          Call(t, callback, RaceList)
  \/ \E t \in Threads : CheckSizeStep(t)
  \/ \E t \in Threads : ScanStep(t)
  \/ \E t \in Threads : AppendStep(t)

SpecRace == InitRace /\ [][NextRace]_vars

(***************************************************************************)
(* Specification SpecTypes: logger instances of a class and of a class     *)
(* derived from it, two of them distinct objects of one class and one      *)
(* configuration, and a name, on the six lists.                            *)
(***************************************************************************)
TypeCallbacks == {Logger("L1"), Logger("L2"), Logger("S1"), Str("datadog")}

\* the classes passed as callback_type
CallbackTypes ==
  {"CustomLogger", "DataDogLogger", "DataDogLLMObsLogger", "OtherLogger"}

NextTypes ==
  \/ \E callback \in TypeCallbacks, c \in ResetLists :
       Total < MaxTypes /\ Add(callback, c)
  \/ \E c \in ResetLists, require_self \in BOOLEAN :
       lists[c] # << >> /\ Remove(c, Logger("L1"), require_self)
  \/ Reset

SpecTypes == Init /\ [][NextTypes]_vars

(***************************************************************************)
(* Specification SpecKey: logger instances of one class that differ in a   *)
(* private attribute, in an attribute that is not a str, bool or int, in   *)
(* the name or the value of a public attribute, and an instance of         *)
(* another class, each registered on a list that does not hold that        *)
(* object yet.                                                             *)
(***************************************************************************)
KeyCallbacks ==
  {Logger(o) : o \in {"K1", "K2", "K3", "K4", "P1", "P2", "P3", "P4", "P5",
                      "P6", "P7", "P8", "P9", "Q1"}}

KeyLists == {"callbacks", "success_callback"}

NextKey ==
  \/ \E callback \in KeyCallbacks, c \in KeyLists :
       /\ Total < MaxKey
       /\ ~InList(callback, lists[c])
       /\ Add(callback, c)
  \/ \E c \in KeyLists, require_self \in BOOLEAN :
       lists[c] # << >> /\ Remove(c, Logger("P1"), require_self)
  \/ Reset

SpecKey == Init /\ [][NextKey]_vars

(***************************************************************************)
(* Specification SpecStrings: callbacks that _get_callback_string gives    *)
(* the same string, two logger instances of one class with different       *)
(* configurations and a name equal to the __name__ of a bound method, on   *)
(* the six lists.                                                          *)
(***************************************************************************)
StringCallbacks == {Logger("L1"), Logger("L4"), Str("m1"), Fn("A.m1")}

NextStrings ==
  \/ \E callback \in StringCallbacks, c \in ResetLists :
       Total < MaxStrings /\ Add(callback, c)
  \/ \E c \in ResetLists, obj \in {Owner("A"), Logger("L1")},
        require_self \in BOOLEAN :
       lists[c] # << >> /\ Remove(c, obj, require_self)
  \/ Reset

SpecStrings == Init /\ [][NextStrings]_vars

(***************************************************************************)
(* Queries.                                                                *)
(***************************************************************************)
\* a concatenation that takes litellm.input_callback too
_get_all_callbacks_WithInput ==
  lists["callbacks"] \o lists["input_callback"] \o lists["success_callback"]
    \o lists["failure_callback"] \o lists["_async_success_callback"]
    \o lists["_async_failure_callback"]

_get_all_callbacks ==
  lists["callbacks"] \o lists["success_callback"] \o lists["failure_callback"]
    \o lists["_async_success_callback"] \o lists["_async_failure_callback"]

\* isinstance(callback, callback_type), callback_type a logger class
IsInstance(callback, callback_type) ==
  /\ IsCustomLogger(callback)
  /\ callback_type \in SuperTypes(TypeName(callback.id))

\* the loop of get_custom_loggers_for_type over the callbacks from index i,
\* all_callbacks being the list built so far
RECURSIVE CollectForType(_, _, _, _)
CollectForType(callbacks, i, callback_type, all_callbacks) ==
  IF i > Len(callbacks) THEN all_callbacks
  ELSE CollectForType(callbacks, i + 1, callback_type,
         IF /\ IsInstance(callbacks[i], callback_type)
            /\ ~InList(callbacks[i], all_callbacks)
           THEN Append(all_callbacks, callbacks[i])
           ELSE all_callbacks)

\* a filter that keeps an instance once for each list it is on
get_custom_loggers_for_type_NoDedup(callback_type) ==
  SelectSeq(_get_all_callbacks, LAMBDA x : IsInstance(x, callback_type))

get_custom_loggers_for_type(callback_type) ==
  CollectForType(_get_all_callbacks, 1, callback_type, << >>)

\* a test for the class itself that misses the classes derived from it
callback_is_active_ExactType(callback_type) ==
  \E i \in 1..Len(_get_all_callbacks) :
    /\ IsCustomLogger(_get_all_callbacks[i])
    /\ TypeName(_get_all_callbacks[i].id) = callback_type

callback_is_active(callback_type) ==
  \E i \in 1..Len(_get_all_callbacks) :
    IsInstance(_get_all_callbacks[i], callback_type)

\* set(list)
ToSet(l) == {l[i] : i \in 1..Len(l)}

\* CustomLoggerRegistry.get_callback_str_from_class_type: the canonical name
\* of a logger class, "" (None) for a class that has none
RegistryName(type_name) ==
  CASE type_name = "DataDogLogger" -> "datadog"
    [] type_name = "DataDogLLMObsLogger" -> "datadog_llm_observability"
    [] OTHER -> ""

_get_callback_string(callback) ==
  IF IsStr(callback) THEN callback.id
  ELSE IF IsCustomLogger(callback)
    THEN LET callback_str == RegistryName(TypeName(callback.id))
         IN IF callback_str # "" THEN callback_str ELSE TypeName(callback.id)
  ELSE IF IsCallable(callback)
    THEN IF HasName(callback) THEN NameOf(callback)
         ELSE "functools.partial(" \o callback.id \o ")"
  ELSE "<" \o callback.id \o ">"

success_callbacks ==
  ToSet(lists["success_callback"] \o lists["_async_success_callback"])

\* a failure set built without the async list
failure_callbacks_NoAsync == ToSet(lists["failure_callback"])

failure_callbacks ==
  ToSet(lists["failure_callback"] \o lists["_async_failure_callback"])

general_callbacks == ToSet(lists["callbacks"])

\* a bucket of result after the loop: one callback_str appended for each
\* callback of the set that took the branch.  A set is iterated in no
\* particular order, so the bucket is the bag of the strings.
Appended(callbacks) ==
  [s \in {_get_callback_string(x) : x \in callbacks} |->
     Cardinality({x \in callbacks : _get_callback_string(x) = s})]

\* a final step that returns the bucket as the loop left it
Deduplicated_Not(bucket) == bucket

\* list(set(bucket))
Deduplicated(bucket) == SetToBag(BagToSet(bucket))

\* the three buckets returned, each the bag of its strings
get_callbacks_by_type ==
  LET all_callbacks == success_callbacks \cup failure_callbacks \cup general_callbacks
      is_in_success(x) == x \in success_callbacks
      is_in_failure(x) == x \in failure_callbacks
      is_in_general(x) == x \in general_callbacks
      both(x) == is_in_general(x) \/ (is_in_success(x) /\ is_in_failure(x))
  IN [success_and_failure |->
        Deduplicated(Appended({y \in all_callbacks : both(y)})),
      success |->
        Deduplicated(Appended({y \in all_callbacks :
                                 ~both(y) /\ is_in_success(y)})),
      failure |->
        Deduplicated(Appended({y \in all_callbacks :
                                 ~both(y) /\ ~is_in_success(y)
                                   /\ is_in_failure(y)}))]

(***************************************************************************)
(* Identity of a handle as the specification defines it: a name is its     *)
(* string, a callable is itself, a logger instance is its type together    *)
(* with its public str/bool/int fields, in no order.                       *)
(***************************************************************************)
PublicFields(o) ==
  {InstanceVars(o)[i] : i \in
     {j \in 1..Len(InstanceVars(o)) :
        /\ ~StartsWithUnderscore(InstanceVars(o)[j].name)
        /\ IsFundamental(InstanceVars(o)[j].value)}}

SameIdentity(x, y) ==
  /\ x.kind = y.kind
  /\ IF IsCustomLogger(x)
       THEN /\ TypeName(x.id) = TypeName(y.id)
            /\ PublicFields(x.id) = PublicFields(y.id)
       ELSE x = y

Recognized(x) == IsStr(x) \/ IsCustomLogger(x) \/ IsCallable(x)

HoldsIdentity(l, x) == \E i \in 1..Len(l) : SameIdentity(l[i], x)

(***************************************************************************)
(* C1.  After any sequence of add, remove and reset calls no list of the   *)
(* six holds two handles of one identity: no two equal names, no callable  *)
(* twice, no two logger instances of the same type and public fields.      *)
(***************************************************************************)
C1_NoTwoOfOneIdentity ==
  \A c \in ResetLists : \A i, j \in 1..Len(lists[c]) :
    i # j => ~SameIdentity(lists[c][i], lists[c][j])

(***************************************************************************)
(* C2.  No list ever holds more than 30 handles, and an add to a list      *)
(* that holds 30 leaves every list as it was: nothing appended, nothing    *)
(* evicted.                                                                *)
(***************************************************************************)
C2_AtMostThirty ==
  /\ [](\A c \in AllLists : Len(lists[c]) <= 30)
  /\ [][\A x \in CapCallbacks, c \in AllLists :
          (last'.op = "add" /\ Len(lists[c]) = 30 /\ Add(x, c))
            => lists' = lists]_vars

C2_Witness ==
  /\ last.op = "add" /\ last.outcome = "full"
  /\ \E c \in ResetLists : Len(lists[c]) = 30

(***************************************************************************)
(* C3.  add is idempotent: once add(h, c) has run, running it again leaves *)
(* c as the first call left it, for a name, a callable, a logger instance  *)
(* and a value of no recognized kind, on a list with room and on a full    *)
(* one.                                                                    *)
(***************************************************************************)
C3_AddIsIdempotent ==
  [][\A x \in CapCallbacks, c \in AllLists :
       (last'.op = "add" /\ Add(x, c))
         => _safe_add_callback_to_list(x, lists'[c]).list = lists'[c]]_vars

C3_Witness ==
  /\ last.op = "add" /\ last.outcome = "duplicate"
  /\ \E c \in ResetLists :
       /\ Len(lists[c]) = 29
       /\ InList(Logger("L1"), lists[c])

(***************************************************************************)
(* C4.  Adding a logger instance to a list that holds an instance of the   *)
(* same type with the same public str/bool/int fields, in whatever order   *)
(* the fields were set, leaves the list as it was: the first one stays     *)
(* the only entry.                                                         *)
(***************************************************************************)
C4_SameConfigIsOneEntry ==
  [][\A x \in Callbacks, c \in AllLists :
       (/\ last'.op = "add"
        /\ IsCustomLogger(x)
        /\ HoldsIdentity(lists[c], x)
        /\ Add(x, c)) => lists'[c] = lists[c]]_vars

(***************************************************************************)
(* C5.  No add raises to its caller, whatever the handle and whatever the  *)
(* list holds.                                                             *)
(***************************************************************************)
C5_AddNeverRaises == last.op = "add" => last.outcome # "raised"

(***************************************************************************)
(* C6.  An add to list c leaves every other list as it was, and it is      *)
(* accepted whenever the handle is of a recognized kind and c itself has   *)
(* room and holds no handle of that identity, whatever the other lists     *)
(* hold.                                                                   *)
(***************************************************************************)
C6_ListsAreIndependent ==
  [][\A x \in Callbacks, c \in AllLists :
       (last'.op = "add" /\ Add(x, c)) =>
         /\ \A d \in AllLists \ {c} : lists'[d] = lists[d]
         /\ (/\ Recognized(x)
             /\ Len(lists[c]) < MAX_CALLBACKS
             /\ ~HoldsIdentity(lists[c], x))
            => /\ last'.outcome = "appended"
               /\ lists'[c] = Append(lists[c], x)]_vars

C6_Witness ==
  /\ last.op = "add" /\ last.outcome = "appended"
  /\ \E x \in Callbacks :
       /\ lists["success_callback"] = << x >>
       /\ lists["failure_callback"] = << x >>
  /\ \A c \in AllLists \ {"success_callback", "failure_callback"} :
       lists[c] = << >>

\* the names registered on some list of cs
NamesOf(cs) ==
  {n \in {"datadog", "sentry", "langfuse"} :
     \E c \in cs : \E i \in 1..Len(lists[c]) : lists[c][i] = Str(n)}

(***************************************************************************)
(* C7.  With names only in the registry, S the names of success_callback   *)
(* and _async_success_callback, F those of failure_callback and            *)
(* _async_failure_callback and G those of callbacks: success_and_failure   *)
(* is the names in G or in both S and F, success the names in S and in     *)
(* neither F nor G, failure the names in F and in neither S nor G.  The    *)
(* names of input_callback alone are in no bucket.                         *)
(***************************************************************************)
C7_CategorizeNames ==
  LET S == NamesOf({"success_callback", "_async_success_callback"})
      F == NamesOf({"failure_callback", "_async_failure_callback"})
      G == NamesOf({"callbacks"})
  IN (\A c \in AllLists : \A i \in 1..Len(lists[c]) : IsStr(lists[c][i])) =>
       /\ get_callbacks_by_type.success_and_failure = SetToBag(G \cup (S \cap F))
       /\ get_callbacks_by_type.success = SetToBag(S \ (F \cup G))
       /\ get_callbacks_by_type.failure = SetToBag(F \ (S \cup G))

C7_Witness ==
  /\ lists["success_callback"] = << Str("datadog") >>
  /\ lists["_async_failure_callback"] = << Str("datadog") >>
  /\ lists["input_callback"] = << Str("sentry") >>
  /\ lists["callbacks"] = << >>
  /\ get_callbacks_by_type =
       [success_and_failure |-> SetToBag({"datadog"}),
        success |-> EmptyBag, failure |-> EmptyBag]

(***************************************************************************)
(* C8.  Right after _reset_all_callbacks each of the six lists is empty    *)
(* and _get_all_callbacks is empty, and an add of a recognized handle to   *)
(* any of them that follows is accepted.                                   *)
(***************************************************************************)
C8_ResetEmptiesAll ==
  /\ [](last.op = "reset" =>
          /\ \A c \in ResetLists : Len(lists[c]) = 0
          /\ _get_all_callbacks = << >>)
  /\ [][\A x \in Callbacks, c \in ResetLists :
          (last.op = "reset" /\ last'.op = "add" /\ Recognized(x) /\ Add(x, c))
            => lists'[c] = << x >> /\ last'.outcome = "appended"]_vars

C8_Witness == last.op = "reset" /\ last.n = 1

\* a handle matches obj: by owner (a bound method of obj) or by equality
C9_Matches(x, obj, require_self) ==
  IF require_self THEN x.kind = "fn" /\ x.id \in BoundMethods /\ SelfOf(x) = obj
  ELSE x = obj

(***************************************************************************)
(* C9.  remove_callback_from_list_by_object(list, obj) leaves in the list  *)
(* no handle that matches obj, and leaves every other handle in it, once   *)
(* each, in the original order.  With require_self a handle matches when   *)
(* it is a bound method whose __self__ equals obj; without it, when it     *)
(* equals obj.  Every match is removed, not only the first.                *)
(***************************************************************************)
C9_RemovesExactlyTheMatches ==
  [][\A c \in RemoveLists, obj \in RemoveObjects, require_self \in BOOLEAN :
       (last'.op = "remove" /\ Remove(c, obj, require_self)) =>
         /\ \A i \in 1..Len(lists'[c]) :
              ~C9_Matches(lists'[c][i], obj, require_self)
         /\ lists'[c] =
              SelectSeq(lists[c], LAMBDA x : ~C9_Matches(x, obj, require_self))]_vars

C9_Witness ==
  /\ last = [op |-> "remove", outcome |-> "by_self", n |-> 3]
  /\ lists["success_callback"] = << Fn("B.m1") >>

\* the handles registered on some list of cs
HandlesOf(cs) == UNION {{lists[c][i] : i \in 1..Len(lists[c])} : c \in cs}

(***************************************************************************)
(* C11.  Two logger instances of one identity (same type, same public      *)
(* str/bool/int fields, distinct objects or not), one on success_callback  *)
(* or _async_success_callback and the other on failure_callback or         *)
(* _async_failure_callback, with callbacks empty and no other handle of    *)
(* the same string on those lists: get_callbacks_by_type reports their     *)
(* string in success_and_failure and neither in success nor in failure.    *)
(***************************************************************************)
C11_OneHandleAcrossLists ==
  LET S == HandlesOf({"success_callback", "_async_success_callback"})
      F == HandlesOf({"failure_callback", "_async_failure_callback"})
  IN \A x \in S, y \in F :
       (/\ IsCustomLogger(x) /\ IsCustomLogger(y)
        /\ SameIdentity(x, y)
        /\ lists["callbacks"] = << >>
        /\ \A z \in S \cup F :
             _get_callback_string(z) = _get_callback_string(x)
               => SameIdentity(z, x))
       => /\ BagIn(_get_callback_string(x),
                   get_callbacks_by_type.success_and_failure)
          /\ ~BagIn(_get_callback_string(x), get_callbacks_by_type.success)
          /\ ~BagIn(_get_callback_string(x), get_callbacks_by_type.failure)

(***************************************************************************)
(* C12.  An accepted add puts the handle at the end of its list and keeps  *)
(* every earlier element at its position; an add that is not accepted      *)
(* (duplicate, list at the limit) leaves every list as it was.  So the     *)
(* handles of a list stand in the order of their first accepted add: the   *)
(* names cb1, cb2, ..., first registered in this order, stand in this      *)
(* order on the list.                                                      *)
(***************************************************************************)
C12_AppendAtEndOrNothing ==
  /\ [][\A x \in CapCallbacks, c \in AllLists :
          (last'.op = "add" /\ Add(x, c)) =>
            IF last'.outcome = "appended"
              THEN /\ Len(lists'[c]) = Len(lists[c]) + 1
                   /\ lists'[c][Len(lists'[c])] = x
                   /\ \A i \in 1..Len(lists[c]) : lists'[c][i] = lists[c][i]
                   /\ \A d \in AllLists \ {c} : lists'[d] = lists[d]
              ELSE lists' = lists]_vars
  /\ [](\A c \in AllLists :
          SelectSeq(lists[c], LAMBDA h : h \in Fillers)
            = [k \in 1..NumFillers(lists[c]) |-> Filler(k)])

C12_Witness ==
  /\ last.op = "add" /\ last.outcome = "appended"
  /\ \E c \in ResetLists :
       /\ Len(lists[c]) = 30
       /\ lists[c][1] = Filler(1)
       /\ lists[c][29] = Logger("L1")
       /\ lists[c][30] = Fn("A.m1")

\* General, Success, Failure, AsyncSuccess, AsyncFailure
FiveLists ==
  << "callbacks", "success_callback", "failure_callback",
     "_async_success_callback", "_async_failure_callback" >>

\* the lengths of the first k of the five lists together
RECURSIVE LenOfFirst(_)
LenOfFirst(k) ==
  IF k = 0 THEN 0 ELSE LenOfFirst(k - 1) + Len(lists[FiveLists[k]])

\* how many times x stands in the list l
Count(l, x) == Cardinality({i \in 1..Len(l) : l[i] = x})

(***************************************************************************)
(* C13.  In every state _get_all_callbacks is callbacks, success_callback, *)
(* failure_callback, _async_success_callback, _async_failure_callback one  *)
(* after the other, each in its own order: its length is the sum of the    *)
(* five lengths, the i-th handle of the k-th list stands at position i     *)
(* after the handles of the lists before it, a handle stands in it once    *)
(* for each of the five lists it is on, and a handle that is only on       *)
(* input_callback does not stand in it.                                    *)
(***************************************************************************)
C13_AllCallbacksIsTheFiveLists ==
  /\ Len(_get_all_callbacks) = LenOfFirst(5)
  /\ \A k \in 1..5 : \A i \in 1..Len(lists[FiveLists[k]]) :
       _get_all_callbacks[LenOfFirst(k - 1) + i] = lists[FiveLists[k]][i]
  /\ \A x \in TypeCallbacks :
       /\ Count(_get_all_callbacks, x)
            = Cardinality({k \in 1..5 : InList(x, lists[FiveLists[k]])})
       /\ (\A k \in 1..5 : ~InList(x, lists[FiveLists[k]]))
            => ~InList(x, _get_all_callbacks)

C13_Witness ==
  /\ lists["input_callback"] = << Str("datadog") >>
  /\ lists["success_callback"] = << Logger("L1") >>
  /\ lists["_async_failure_callback"] = << Logger("L1") >>
  /\ _get_all_callbacks = << Logger("L1"), Logger("L1") >>

\* the handle x is a logger instance of the class, or of a class derived
\* from it
MatchesType(x, type_tag) ==
  /\ x.kind = "logger"
  /\ \/ type_tag = "CustomLogger"
     \/ TypeName(x.id) = type_tag
     \/ type_tag = "DataDogLogger" /\ TypeName(x.id) = "DataDogLLMObsLogger"

(***************************************************************************)
(* C14.  After any add, remove and reset calls callback_is_active(type)    *)
(* holds exactly when a logger instance of the type, or of a type derived  *)
(* from it, is now on callbacks, success_callback, failure_callback,       *)
(* _async_success_callback or _async_failure_callback, which is exactly    *)
(* when get_custom_loggers_for_type(type) is not empty.  A logger that is  *)
(* only on input_callback, or that was removed or reset away, does not     *)
(* make it hold: right after a reset no type is active.                    *)
(***************************************************************************)
C14_ActiveIffOnTheFiveLists ==
  \A type_tag \in CallbackTypes :
    /\ callback_is_active(type_tag)
         <=> \E k \in 1..5 : \E i \in 1..Len(lists[FiveLists[k]]) :
               MatchesType(lists[FiveLists[k]][i], type_tag)
    /\ callback_is_active(type_tag)
         <=> get_custom_loggers_for_type(type_tag) # << >>
    /\ last.op = "reset" => ~callback_is_active(type_tag)

C14_Witness ==
  /\ last = [op |-> "remove", outcome |-> "by_equality", n |-> 1]
  /\ lists["input_callback"] = << Logger("L1") >>
  /\ lists["success_callback"] = << Str("datadog") >>
  /\ ~callback_is_active("CustomLogger")

\* the first position of x in the list l
FirstIndex(l, x) ==
  CHOOSE i \in 1..Len(l) : l[i] = x /\ \A j \in 1..(i - 1) : l[j] # x

(***************************************************************************)
(* C15.  get_custom_loggers_for_type(type) holds every logger object of    *)
(* _get_all_callbacks that is of the type (or of a type derived from it),  *)
(* each once, in the order of their first places in _get_all_callbacks:    *)
(* an instance on several lists stands in it once, two distinct instances  *)
(* of one type on different lists both stand in it.                        *)
(***************************************************************************)
C15_EachInstanceOnceInOrder ==
  \A type_tag \in CallbackTypes :
    LET r == get_custom_loggers_for_type(type_tag)
    IN /\ \A i, j \in 1..Len(r) : i # j => r[i] # r[j]
       /\ {r[i] : i \in 1..Len(r)}
            = {x \in HandlesOf({FiveLists[k] : k \in 1..5}) :
                 MatchesType(x, type_tag)}
       /\ \A i, j \in 1..Len(r) :
            i < j => FirstIndex(_get_all_callbacks, r[i])
                       < FirstIndex(_get_all_callbacks, r[j])

C15_Witness ==
  /\ lists["success_callback"] = << Logger("L1") >>
  /\ lists["failure_callback"] = << Logger("L2") >>
  /\ lists["_async_failure_callback"] = << Logger("L1") >>
  /\ get_custom_loggers_for_type("DataDogLogger") = << Logger("L1"), Logger("L2") >>

\* the public str/bool/int attributes of a logger instance, as set
C16_PublicPrimitive(o) ==
  SelectSeq(InstanceVars(o),
            LAMBDA at : /\ at.name \notin {"_secret", "_p"}
                        /\ at.value.t \in {"str", "bool", "int"})

\* x and y are two instances of one class that differ only in private
\* attributes or in attributes that are not a str, bool or int
C16_DifferOnlyInOthers(x, y) ==
  /\ x.kind = "logger" /\ y.kind = "logger"
  /\ x # y
  /\ TypeName(x.id) = TypeName(y.id)
  /\ C16_PublicPrimitive(x.id) = C16_PublicPrimitive(y.id)
  /\ InstanceVars(x.id) # InstanceVars(y.id)

C17_DifferentConfigsBothStay ==
  [][\A x \in KeyCallbacks, c \in KeyLists :
       (/\ last'.op = "add"
        /\ Len(lists[c]) < MAX_CALLBACKS
        /\ \A i \in 1..Len(lists[c]) : ~SameIdentity(lists[c][i], x)
        /\ Add(x, c)) => lists'[c] = Append(lists[c], x)]_vars

(***************************************************************************)
(* C18.  In every state each bucket of get_callbacks_by_type holds each    *)
(* string once at most, also when several handles of one bucket have the   *)
(* same string (two logger instances of one class with different           *)
(* configurations, a name equal to the __name__ of a function), and the    *)
(* string of every handle of callbacks, success_callback,                  *)
(* failure_callback, _async_success_callback and _async_failure_callback   *)
(* is in one bucket at least.                                              *)
(***************************************************************************)
C18_BucketsHoldEachStringOnce ==
  LET r == get_callbacks_by_type
  IN /\ \A bucket \in {r.success, r.failure, r.success_and_failure} :
          \A str \in BagToSet(bucket) : CopiesIn(str, bucket) <= 1
     /\ \A x \in HandlesOf({FiveLists[k] : k \in 1..5}) :
          \/ BagIn(_get_callback_string(x), r.success)
          \/ BagIn(_get_callback_string(x), r.failure)
          \/ BagIn(_get_callback_string(x), r.success_and_failure)

C18_Witness ==
  /\ lists["success_callback"] = << Logger("L1"), Logger("L4") >>
  /\ lists["failure_callback"] = << Fn("A.m1") >>
  /\ lists["callbacks"] = << >>
  /\ get_callbacks_by_type =
       [success_and_failure |-> EmptyBag,
        success |-> SetToBag({"datadog"}),
        failure |-> SetToBag({"m1"})]

====
